---- MODULE Spec2Model ----
(***************************************************************************)
(* The Flask todo service of src/app.py: one SQLite table of Todo rows and *)
(* the five HTTP handlers over it.  A step of the model is one request,    *)
(* handled whole (parse, validate, one transaction, serialise).            *)
(***************************************************************************)
EXTENDS Integers, Sequences, FiniteSets, TLC

VARIABLES
    table,      \* the rows of table "todo"
    request,    \* the request handled last
    response,   \* the answer to it: status and JSON body
    history     \* the bodies of the creates accepted so far, while nothing
                \* else has written to the table

vars == <<table, request, response, history>>

\* The largest id the table may hand out; a create beyond it is not explored.
MaxId == 2

(***************************************************************************)
(* JSON values as Python sees them after request.get_json                  *)
(***************************************************************************)
JNull == [kind |-> "null"]
JBool(b) == [kind |-> "bool", bool |-> b]
JNum(n) == [kind |-> "num", num |-> n]
JStr(s) == [kind |-> "str", str |-> s]
JArr(a) == [kind |-> "arr", items |-> a]
JObj(f) == [kind |-> "obj", fields |-> f]

\* Python's None is what JSON null decodes to.
None == JNull

\* A request body that is absent or is not JSON.
NotJson == [kind |-> "notjson"]

\* An exception leaving the handler (Flask answers 500).
Raised == [kind |-> "raised"]

\* request.get_json(silent=True): None when the body is no JSON, else the value.
get_json_or_empty(raw) == IF raw = NotJson THEN JObj([k \in {} |-> None]) ELSE raw

get_json(raw) == IF raw = NotJson THEN None ELSE raw

\* Python truthiness, as used by "not title" and bool(...).
Truthy(v) ==
    CASE v.kind = "null" -> FALSE
      [] v.kind = "bool" -> v.bool
      [] v.kind = "num" -> v.num # 0
      [] v.kind = "str" -> v.str # ""
      [] v.kind = "arr" -> Len(v.items) > 0
      [] v.kind = "obj" -> DOMAIN v.fields # {}

IsSubstring(k, s) ==
    \E i \in 1..(Len(s) - Len(k) + 1) : SubSeq(s, i, i + Len(k) - 1) = k

\* Python's  key in data  raises TypeError for a number or a boolean.
Iterable(data) == data.kind \in {"obj", "arr", "str"}

\* Python's  key in data  for a dict, a list and a string.
Contains(data, key) ==
    CASE data.kind = "obj" -> key \in DOMAIN data.fields
      [] data.kind = "arr" -> \E i \in 1..Len(data.items) : data.items[i] = JStr(key)
      [] data.kind = "str" -> IsSubstring(key, data.str)

\* data.get(key, default) of a dict.
dict_get(data, key, default) ==
    IF key \in DOMAIN data.fields THEN data.fields[key] ELSE default

bool_identity(v) == v

\* Python's bool(v).
bool(v) == JBool(Truthy(v))

(***************************************************************************)
(* The storage: SQLite behind SQLAlchemy                                   *)
(***************************************************************************)
Digit(d) ==
    CASE d = 0 -> "0" [] d = 1 -> "1" [] d = 2 -> "2" [] d = 3 -> "3"
      [] d = 4 -> "4" [] d = 5 -> "5" [] d = 6 -> "6" [] d = 7 -> "7"
      [] d = 8 -> "8" [] d = 9 -> "9"

RECURSIVE IntText(_)
IntText(n) == IF n < 10 THEN Digit(n) ELSE IntText(n \div 10) \o Digit(n % 10)

\* The values the sqlite3 driver can bind; a list or a dict raises.
Bindable(v) == v.kind \in {"null", "bool", "num", "str"}

\* What a db.String column holds for a bound value: text stays, a number is
\* stored as its decimal text (TEXT affinity), a boolean binds as 1 or 0.
ColumnText(v) ==
    CASE v.kind = "null" -> None
      [] v.kind = "str" -> v
      [] v.kind = "num" -> JStr(IntText(v.num))
      [] v.kind = "bool" -> JStr(IF v.bool THEN "1" ELSE "0")

Ids(tbl) == {r.id : r \in tbl}

MaxOf(S) == CHOOSE m \in S : \A x \in S : x <= m

NextIdByCount(tbl) == Cardinality(tbl) + 1

\* The integer primary key of a new row: one more than the largest in the table.
NextId(tbl) == IF tbl = {} THEN 1 ELSE MaxOf(Ids(tbl)) + 1

query_get_or_first(tbl, id) ==
    IF id \in Ids(tbl) THEN CHOOSE r \in tbl : r.id = id
    ELSE IF tbl = {} THEN None
    ELSE CHOOSE r \in tbl : TRUE

\* Todo.query.get(id): the row, or None.
query_get(tbl, id) ==
    IF id \in Ids(tbl) THEN CHOOSE r \in tbl : r.id = id ELSE None

\* What the flush of one object writes: the row, or Raised (a value that does
\* not bind, or NULL in the NOT NULL column title).
flush(todo) ==
    IF ~Bindable(todo.title) \/ ~Bindable(todo.description) THEN Raised
    ELSE IF todo.title = None THEN Raised
    ELSE [id |-> todo.id,
          title |-> ColumnText(todo.title),
          description |-> ColumnText(todo.description),
          is_completed |-> todo.is_completed]

\* Todo.to_dict
to_dict(todo) ==
    JObj([id |-> JNum(todo.id),
          title |-> todo.title,
          description |-> todo.description,
          is_completed |-> todo.is_completed])

query_all_first(tbl) ==
    IF tbl = {} THEN <<>>
    ELSE <<CHOOSE r \in tbl : \A o \in tbl : r.id <= o.id>>

\* Todo.query.all(): the rows in rowid order.
RECURSIVE query_all(_)
query_all(tbl) ==
    IF tbl = {} THEN <<>>
    ELSE LET last == CHOOSE r \in tbl : \A o \in tbl : o.id <= r.id
         IN Append(query_all(tbl \ {last}), last)

(***************************************************************************)
(* The handlers: each gives the status, the body and the table it leaves   *)
(***************************************************************************)
Result(status, body, tbl) == [status |-> status, body |-> body, table |-> tbl]

ErrorBody(msg) == JObj([error |-> JStr(msg)])

MessageBody(msg) == JObj([message |-> JStr(msg)])

\* An unhandled exception: the session is dropped, nothing is written.
ServerError(tbl) == Result(500, Raised, tbl)

index(tbl) == Result(200, MessageBody("Flask API is running"), tbl)

get_todos(tbl) ==
    LET todos == query_all(tbl)
    IN Result(200, JArr([i \in 1..Len(todos) |-> to_dict(todos[i])]), tbl)

title_absent(title) == title = None

\* "if not title"
title_missing(title) == ~Truthy(title)

create_todo(tbl, raw) ==
    LET data == get_json(raw)
    IN IF data = None THEN Result(400, ErrorBody("Request body must be JSON"), tbl)
       ELSE IF data.kind # "obj" THEN ServerError(tbl)
       ELSE LET title == dict_get(data, "title", None)
                description == dict_get(data, "description", None)
                is_completed == dict_get(data, "is_completed", JBool(FALSE))
            IN IF title_missing(title)
               THEN Result(400, ErrorBody("\"title\" is required"), tbl)
               ELSE LET new_todo == [id |-> NextId(tbl),
                                     title |-> title,
                                     description |-> description,
                                     is_completed |-> bool(is_completed)]
                        row == flush(new_todo)
                    IN IF row = Raised THEN ServerError(tbl)
                       ELSE Result(201, to_dict(row), tbl \cup {row})

set_always(todo, data, key) ==
    IF data.kind # "obj" THEN Raised
    ELSE [todo EXCEPT ![key] = dict_get(data, key, None)]

\* "if key in data: todo.key = data[key]"
set_if_present(todo, data, key) ==
    IF ~Iterable(data) THEN Raised
    ELSE IF ~Contains(data, key) THEN todo
    ELSE IF data.kind # "obj" THEN Raised
    ELSE [todo EXCEPT ![key] = data.fields[key]]

\* "if 'is_completed' in data: todo.is_completed = bool(data['is_completed'])"
set_flag_if_present(todo, data) ==
    IF ~Iterable(data) THEN Raised
    ELSE IF ~Contains(data, "is_completed") THEN todo
    ELSE IF data.kind # "obj" THEN Raised
    ELSE [todo EXCEPT !.is_completed = bool(data.fields["is_completed"])]

apply_update_with_id(todo, data) ==
    LET t1 == set_if_present(todo, data, "title")
        t2 == IF t1 = Raised THEN Raised ELSE set_if_present(t1, data, "description")
        t3 == IF t2 = Raised THEN Raised ELSE set_flag_if_present(t2, data)
    IN IF t3 = Raised THEN Raised
       ELSE IF data.kind = "obj" /\ Contains(data, "id") /\ data.fields["id"].kind = "num"
            THEN [t3 EXCEPT !.id = data.fields["id"].num]
            ELSE t3

\* The three assignments of update_todo, in order; the first to raise ends it.
apply_update(todo, data) ==
    LET t1 == set_if_present(todo, data, "title")
        t2 == IF t1 = Raised THEN Raised ELSE set_if_present(t1, data, "description")
        t3 == IF t2 = Raised THEN Raised ELSE set_flag_if_present(t2, data)
    IN t3

update_todo(tbl, id, raw) ==
    LET data == get_json(raw)
    IN IF data = None THEN Result(400, ErrorBody("Request body must be JSON"), tbl)
       ELSE LET todo == query_get(tbl, id)
            IN IF todo = None THEN Result(404, ErrorBody("Todo not found"), tbl)
               ELSE LET changed == apply_update(todo, data)
                        row == IF changed = Raised THEN Raised ELSE flush(changed)
                    IN IF row = Raised THEN ServerError(tbl)
                       ELSE Result(200, to_dict(row), (tbl \ {todo}) \cup {row})

delete_row_uncommitted(tbl, todo) == tbl

\* db.session.delete(todo) and the commit.
delete_row(tbl, todo) == tbl \ {todo}

delete_todo(tbl, id) ==
    LET todo == query_get(tbl, id)
    IN IF todo = None THEN Result(404, ErrorBody("Todo not found"), tbl)
       ELSE Result(200, MessageBody("Todo deleted successfully"), delete_row(tbl, todo))

(***************************************************************************)
(* The requests explored                                                   *)
(***************************************************************************)
NoKeys == [k \in {} |-> None]

FieldKeys == {"title", "description", "is_completed"}

\* Well-typed field values: what a client following the documented body sends.
FieldValues(key) ==
    CASE key = "title" -> {JStr("Buy milk"), JStr("")}
      [] key = "description" -> {None, JStr("2 liters")}
      [] key = "is_completed" -> {JBool(TRUE), JBool(FALSE)}

Field(key, value) == [k \in {key} |-> value]

\* Values of other JSON types, which the handlers coerce.
LooseFlags == {None, JNum(0), JStr("false")}

LooseTitles == {None, JNum(5), JArr(<<>>), JArr(<<JStr("x")>>)}

\* Bodies with none, one, two and all of the three fields, a coerced
\* is_completed, an "id" key, JSON null and no JSON at all.
Bodies ==
    {JObj(NoKeys)}
    \cup UNION {{JObj(Field(k, v)) : v \in FieldValues(k)} : k \in FieldKeys}
    \cup {JObj([title |-> JStr("Buy milk"), description |-> JStr("2 liters")]),
          JObj([title |-> JStr(""), description |-> None]),
          JObj([title |-> JStr("Buy milk"), is_completed |-> JBool(TRUE)]),
          JObj([title |-> JStr(""), is_completed |-> JBool(FALSE)]),
          JObj([description |-> JStr("2 liters"), is_completed |-> JBool(FALSE)]),
          JObj([description |-> None, is_completed |-> JBool(TRUE)]),
          JObj([title |-> JStr("Buy milk"), description |-> JStr("2 liters"),
                is_completed |-> JBool(TRUE)]),
          JObj([title |-> JStr(""), description |-> None, is_completed |-> JBool(FALSE)]),
          JObj([is_completed |-> JStr("false")]),
          JObj([title |-> JStr("Buy milk"), is_completed |-> JStr("false")]),
          JObj([id |-> JNum(2)]),
          NotJson, JNull}

\* Bodies whose values, or the body itself, are of other JSON types.
LooseBodies ==
    {NotJson, JNull, JNum(5), JStr("title"), JArr(<<>>), JArr(<<JStr("description")>>)}
    \cup {JObj(NoKeys), JObj([title |-> JStr("")]), JObj([title |-> JStr("Buy milk")])}
    \cup {JObj([title |-> t]) : t \in LooseTitles}
    \cup {JObj([title |-> JStr("Buy milk"), is_completed |-> c]) :
            c \in LooseFlags \cup FieldValues("is_completed")}
    \cup {JObj([is_completed |-> c]) : c \in LooseFlags}

PathIds == 1..(MaxId + 1)

Request(method, path, id, raw) ==
    [method |-> method, path |-> path, id |-> id, body |-> raw]

Answer(r) == [status |-> r.status, body |-> r.body]

\* The history once a request other than a create has written.
Tainted == [clean |-> FALSE, submitted |-> <<>>]

(***************************************************************************)
(* The state machine                                                       *)
(***************************************************************************)
\* create_tables() on an empty database file, before the first request.
Init ==
    /\ table = {}
    /\ request = Request("NONE", "", 0, NotJson)
    /\ response = [status |-> 0, body |-> None]
    /\ history = [clean |-> TRUE, submitted |-> <<>>]

Index ==
    LET r == index(table)
    IN /\ request' = Request("GET", "/", 0, NotJson)
       /\ response' = Answer(r)
       /\ table' = r.table
       /\ UNCHANGED history

GetTodos ==
    LET r == get_todos(table)
    IN /\ request' = Request("GET", "/todos", 0, NotJson)
       /\ response' = Answer(r)
       /\ table' = r.table
       /\ UNCHANGED history

CreateTodo(B) ==
    \E raw \in B :
        LET r == create_todo(table, raw)
        IN /\ Ids(r.table) \subseteq 1..MaxId
           /\ request' = Request("POST", "/todos", 0, raw)
           /\ response' = Answer(r)
           /\ table' = r.table
           /\ history' = IF r.status = 201 /\ history.clean
                         THEN [history EXCEPT !.submitted = Append(@, raw)]
                         ELSE history

UpdateTodo(B) ==
    \E id \in PathIds, raw \in B :
        LET r == update_todo(table, id, raw)
        IN /\ request' = Request("PUT", "/todos/<id>", id, raw)
           /\ response' = Answer(r)
           /\ table' = r.table
           /\ history' = IF r.status = 200 THEN Tainted ELSE history

DeleteTodo ==
    \E id \in PathIds :
        LET r == delete_todo(table, id)
        IN /\ request' = Request("DELETE", "/todos/<id>", id, NotJson)
           /\ response' = Answer(r)
           /\ table' = r.table
           /\ history' = IF r.status = 200 THEN Tainted ELSE history

Next == Index \/ GetTodos \/ CreateTodo(Bodies) \/ UpdateTodo(Bodies) \/ DeleteTodo

Spec == Init /\ [][Next]_vars

NextLoose ==
    Index \/ GetTodos \/ CreateTodo(LooseBodies) \/ UpdateTodo(LooseBodies) \/ DeleteTodo

\* The same service, its clients sending loosely typed bodies.
SpecLoose == Init /\ [][NextLoose]_vars

(***************************************************************************)
(* The claims.  A step is one request: request' is the request handled,    *)
(* response' the answer, table the rows before it and table' after it.     *)
(***************************************************************************)
RowOf(tbl, id) == CHOOSE r \in tbl : r.id = id

HasKey(data, key) == data.kind = "obj" /\ key \in DOMAIN data.fields

\* The JSON values that count as false.
Falsy == {JNull, JBool(FALSE), JNum(0), JStr(""), JArr(<<>>), JObj(NoKeys)}

Coerced(v) == JBool(v \notin Falsy)

Reply(status, key, msg) == [status |-> status, body |-> JObj(Field(key, JStr(msg)))]

\* C1: in every reachable state every stored row has a title that is neither
\* null nor the empty string.
C1_TitleNeverEmpty == \A r \in table : r.title # JNull /\ r.title # JStr("")

C2_Step ==
    LET body == request'.body
    IN (/\ request'.method = "POST"
        /\ body.kind = "obj"
        /\ (~HasKey(body, "title") \/ body.fields["title"] \in Falsy))
       => /\ response' = Reply(400, "error", "\"title\" is required")
          /\ table' = table

\* C2: a create whose JSON object has no title key, or a falsy title, is
\* answered 400 '"title" is required' and leaves the stored rows as they were.
C2_TitleRequired == [][C2_Step]_vars

C2_Witness ==
    /\ request.method = "POST"
    /\ HasKey(request.body, "title")
    /\ request.body.fields["title"] = JStr("")
    /\ response.status = 400
    /\ table # {}

C3_Step ==
    (/\ \/ request'.method = "PUT" /\ request'.body \notin {NotJson, JNull}
        \/ request'.method = "DELETE"
     /\ request'.id \notin Ids(table))
    => /\ response' = Reply(404, "error", "Todo not found")
       /\ table' = table

\* C3: an update with a JSON body, or a delete, of an id no stored row has is
\* answered 404 'Todo not found' and leaves every stored row unchanged.
C3_MissingIdIs404 == [][C3_Step]_vars

C3_Witness ==
    /\ request.method = "PUT"
    /\ request.body.kind = "obj"
    /\ request.id \notin Ids(table)
    /\ response.status = 404
    /\ Cardinality(table) = 2

C4_Step ==
    (request'.method = "PUT" /\ response'.status = 200)
    => LET id == request'.id
           data == request'.body
       IN /\ id \in Ids(table)
          /\ id \in Ids(table')
          /\ LET old == RowOf(table, id)
                 new == RowOf(table', id)
             IN /\ table' \ {new} = table \ {old}
                /\ \A k \in FieldKeys : ~HasKey(data, k) => new[k] = old[k]
                /\ (data.kind = "obj" /\ DOMAIN data.fields = {"is_completed"})
                   => /\ new.title = old.title
                      /\ new.description = old.description
                      /\ new.is_completed = Coerced(data.fields["is_completed"])

\* C4: a successful update changes only the fields whose keys are in the body:
\* a field whose key is absent keeps its value, the id and all other rows are
\* unchanged, and a body with only is_completed sets is_completed to the
\* boolean coercion of the value and leaves title and description alone.
C4_PartialUpdate == [][C4_Step]_vars

C4_Witness ==
    /\ request.method = "PUT"
    /\ response.status = 200
    /\ request.body = JObj([is_completed |-> JStr("false")])
    /\ Cardinality(table) = 2
    /\ RowOf(table, request.id).description = JStr("2 liters")
    /\ RowOf(table, request.id).is_completed = JBool(TRUE)

C5_Step ==
    (request'.method \in {"POST", "PUT"} /\ request'.body = NotJson)
    => /\ response' = Reply(400, "error", "Request body must be JSON")
       /\ table' = table

\* C5: a create or an update whose body is absent or is not JSON is answered
\* 400 'Request body must be JSON' and leaves the stored rows unchanged; for
\* an update, whether or not a row with the path id exists.
C5_NotJsonIs400 == [][C5_Step]_vars

C5_Witness ==
    /\ request.method = "PUT"
    /\ request.body = NotJson
    /\ request.id \notin Ids(table)
    /\ response.status = 400
    /\ table # {}

ListedAfterCreates ==
    /\ history.clean
    /\ request.method = "GET"
    /\ request.path = "/todos"

\* C6 as stated: after N creates and no other write, GET /todos returns N
\* objects, each with the title, description and is_completed that its create
\* request submitted, unchanged.
C6_RoundTripVerbatim ==
    ListedAfterCreates
    => /\ response.body.kind = "arr"
       /\ Len(response.body.items) = Len(history.submitted)
       /\ \A i \in 1..Len(history.submitted) :
            LET sent == history.submitted[i]
                got == response.body.items[i].fields
            IN \A k \in FieldKeys : HasKey(sent, k) => got[k] = sent.fields[k]

\* C6, amended: after N creates and no other write, GET /todos returns N
\* objects, each with the title and description its create request submitted
\* as strings (a description omitted or null is null) and with is_completed
\* the boolean coercion of the value submitted (false when omitted).
C6_RoundTripCoerced ==
    ListedAfterCreates
    => /\ response.body.kind = "arr"
       /\ Len(response.body.items) = Len(history.submitted)
       /\ \A i \in 1..Len(history.submitted) :
            LET sent == history.submitted[i]
                got == response.body.items[i].fields
            IN /\ sent.fields["title"].kind = "str" => got.title = sent.fields["title"]
               /\ got.description =
                    (IF HasKey(sent, "description") THEN sent.fields["description"] ELSE JNull)
               /\ got.is_completed =
                    (IF HasKey(sent, "is_completed")
                     THEN Coerced(sent.fields["is_completed"]) ELSE JBool(FALSE))

C6_Witness ==
    /\ ListedAfterCreates
    /\ Len(history.submitted) = 2
    /\ Len(response.body.items) = 2
    /\ history.submitted[2] = JObj([title |-> JStr("Buy milk"), is_completed |-> JStr("false")])

C7_Step ==
    request'.method = "DELETE"
    => /\ request'.id \in Ids(table)
          => /\ response' = Reply(200, "message", "Todo deleted successfully")
             /\ table' = table \ {RowOf(table, request'.id)}
             /\ Cardinality(table') = Cardinality(table) - 1
             /\ request'.id \notin Ids(table')
       /\ (request.method = "DELETE" /\ response.status = 200 /\ request'.id = request.id)
          => /\ response'.status = 404
             /\ table' = table

\* C7: deleting an existing Todo is answered 200 and removes exactly that row,
\* so that its id is no longer listed; a second delete of the same id right
\* after it is answered 404 and changes nothing.
C7_DeleteRemovesOnce == [][C7_Step]_vars

C7_Witness ==
    /\ request.method = "DELETE"
    /\ response.status = 200
    /\ Cardinality(table) = 1
    /\ request.id \notin Ids(table)

UniqueIds(tbl) == \A a, b \in tbl : a.id = b.id => a = b

C8_Step ==
    /\ UniqueIds(table')
    /\ request'.method = "PUT"
       => /\ Cardinality(table') = Cardinality(table)
          /\ Ids(table') = Ids(table)
          /\ \A r \in (table' \ table) \cup (table \ table') : r.id = request'.id
    /\ request'.method = "POST" => table \subseteq table'
    /\ request'.method = "DELETE" => table' \subseteq table
    /\ request'.method = "GET" => table' = table

\* C8: no two stored rows share an id, and no request changes the id of an
\* existing row: an update rewrites only the row of its path id and keeps that
\* id, also when its body has an "id" key; a create and a delete leave the
\* other rows as they were.
C8_IdUniqueAndStable == [][C8_Step]_vars

C8_Witness ==
    /\ request.method = "PUT"
    /\ response.status = 200
    /\ HasKey(request.body, "id")
    /\ request.body.fields["id"] # JNum(request.id)
    /\ request.id \in Ids(table)
    /\ Cardinality(table) = 2

C9_Step ==
    LET body == request'.body
    IN (/\ request'.method = "POST"
        /\ body.kind = "obj"
        /\ DOMAIN body.fields = {"title"}
        /\ body.fields["title"].kind = "str"
        /\ body.fields["title"].str # "")
       => /\ response'.status = 201
          /\ response'.body.kind = "obj"
          /\ LET got == response'.body.fields
             IN /\ DOMAIN got = {"id", "title", "description", "is_completed"}
                /\ got.title = body.fields["title"]
                /\ got.description = JNull
                /\ got.is_completed = JBool(FALSE)
                /\ got.id.kind = "num"
                /\ got.id.num \notin Ids(table)
                /\ table \subseteq table'
                /\ table' \ table = {[id |-> got.id.num, title |-> got.title,
                                      description |-> got.description,
                                      is_completed |-> got.is_completed]}

\* C9: a create whose body has a non-empty title and nothing else is answered
\* 201 with a Todo whose description is null, whose is_completed is false and
\* whose id is an integer no stored row had; exactly one row, equal to the
\* returned object, is added.
C9_CreateTitleOnly == [][C9_Step]_vars

C9_Witness ==
    /\ request.method = "POST"
    /\ request.body = JObj([title |-> JStr("Buy milk")])
    /\ response.status = 201
    /\ Cardinality(table) = 2

AllFlagsBoolean(tbl) == \A r \in tbl : r.is_completed \in {JBool(TRUE), JBool(FALSE)}

C10_Step ==
    /\ AllFlagsBoolean(table')
    /\ (request'.method = "POST" /\ response'.status = 201)
       => \A r \in table' \ table :
            r.is_completed = (IF HasKey(request'.body, "is_completed")
                              THEN Coerced(request'.body.fields["is_completed"])
                              ELSE JBool(FALSE))
    /\ (request'.method = "PUT" /\ response'.status = 200
            /\ HasKey(request'.body, "is_completed"))
       => RowOf(table', request'.id).is_completed
            = Coerced(request'.body.fields["is_completed"])

\* C10: the is_completed of every stored row is exactly true or false: create
\* and update store the truthiness of whatever JSON value is supplied (null,
\* number, string, boolean), and create stores false when the key is omitted.
C10_FlagIsBoolean == [][C10_Step]_vars

C10_Witness ==
    /\ request.method = "PUT"
    /\ response.status = 200
    /\ HasKey(request.body, "is_completed")
    /\ request.body.fields["is_completed"] = JStr("false")
    /\ RowOf(table, request.id).is_completed = JBool(TRUE)

====
